---------------------------- MODULE Spec2Model ----------------------------
(***************************************************************************)
(* A model of HtmlCaseCorrector (src/c++/HtmlCaseCorrector.cpp).           *)
(*                                                                         *)
(* Text is a sequence of byte values (std::string).  A document is the raw *)
(* text of an HTML file; the three values SrcOpen, HrefOpen and AttrClose  *)
(* stand for the markup around an attribute value (<img src=", <a href="   *)
(* and ">), which no attribute value and no path can hold.  The file       *)
(* system is a tree of directories on a case-sensitive volume without      *)
(* symbolic links; a directory lists its entries in a fixed order.         *)
(***************************************************************************)
EXTENDS Integers, Sequences, FiniteSets, TLC

(***************************************************************************)
(* Bounds of the model.                                                    *)
(***************************************************************************)
\* the number of elements with a src/href attribute in a generated document
MaxElems == 2
\* how many times the corrector is run, one run after the other
Runs == 2
\* the longest text of the rewriter's own specification
MaxText == 4
\* the most correction pairs of the rewriter's own specification
MaxPairs == 2

(***************************************************************************)
(* Bytes and names.                                                        *)
(***************************************************************************)
SrcOpen == 256
HrefOpen == 257
AttrClose == 258

Slash == 47
Dot == 46

nDot == <<46>>
nDotDot == <<46, 46>>
\* "T" and "t": the asset the references name (Test.jpg / test.jpg)
nT == <<84>>
nt == <<116>>
\* "S" and "s": a subdirectory (SubDir / subdir)
nS == <<83>>
ns == <<115>>
\* U+0418 and U+0438 in UTF-8: the Cyrillic capital and small letter I
nCyrUp == <<208, 152>>
nCyrLo == <<208, 184>>
\* "h:" and "X": a directory entry that looks like a URL scheme
nScheme == <<104, 58>>
nX == <<88>>
\* "w": the start directory, /w
nW == <<119>>
\* "a", "b": subdirectories of the directory-level scenarios
nA == <<97>>
nB == <<98>>
\* "i.htm", "p.html", "q.HTM": the HTML documents
nIndex == <<105, 46, 104, 116, 109>>
nPage == <<112, 46, 104, 116, 109, 108>>
nQ == <<113, 46, 72, 84, 77>>

extHtml == <<46, 104, 116, 109, 108>>
extHtm == <<46, 104, 116, 109>>
validExtensions == {extHtml, extHtm}

\* no path: a name of one NUL byte, which no entry has
NoPath == << <<0>> >>

(***************************************************************************)
(* std::string helpers.                                                    *)
(***************************************************************************)
Min(a, b) == IF a < b THEN a ELSE b

\* s.substr(i - 1, n) with 1-based i
Sub(s, i, n) == SubSeq(s, i, Min(Len(s), i + n - 1))

\* std::tolower in the "C" locale, the only locale the program runs in
\* (it never calls setlocale): A-Z map to a-z, and every other value is
\* returned as it is.  That holds for the bytes of a multi-byte UTF-8
\* character too, whether char is signed or not: the C libraries' tables
\* take every value from -128 to 255.
ToLower(c) == IF c >= 65 /\ c <= 90 THEN c + 32 ELSE c

LowerStr(s) == [i \in 1..Len(s) |-> ToLower(s[i])]

\* content.find(oldStr, pos): the 0-based position of the first occurrence
\* at or after pos, or -1 (npos).  An empty oldStr is found at pos itself
\* as long as pos <= size.
RECURSIVE Find(_, _, _)
Find(content, oldStr, pos) ==
    IF pos + Len(oldStr) > Len(content) THEN -1
    ELSE IF Sub(content, pos + 1, Len(oldStr)) = oldStr THEN pos
    ELSE Find(content, oldStr, pos + 1)

\* content.replace(pos, n, newStr) erasing one byte too many
ReplaceOneMore(content, pos, n, newStr) ==
    SubSeq(content, 1, pos) \o newStr \o SubSeq(content, pos + n + 2, Len(content))

\* content.replace(pos, n, newStr)
Replace(content, pos, n, newStr) ==
    SubSeq(content, 1, pos) \o newStr \o SubSeq(content, pos + n + 1, Len(content))

(***************************************************************************)
(* std::filesystem::path.  A path is [abs, comps]: whether it starts at    *)
(* the root, and its components.  A trailing separator leaves an empty     *)
(* last component, the empty filename.                                     *)
(***************************************************************************)
RECURSIVE SplitSlash(_, _)
\* the pieces of s between separators, cur being the piece under way
SplitSlash(s, cur) ==
    IF s = << >> THEN <<cur>>
    ELSE IF Head(s) = Slash THEN <<cur>> \o SplitSlash(Tail(s), << >>)
    ELSE SplitSlash(Tail(s), Append(cur, Head(s)))

RECURSIVE DropEmpty(_)
\* repeated separators count as one: the empty pieces go, a last one stays
DropEmpty(ps) ==
    IF Len(ps) <= 1 THEN ps
    ELSE IF Head(ps) = << >> THEN DropEmpty(Tail(ps))
    ELSE <<Head(ps)>> \o DropEmpty(Tail(ps))

\* fs::path(str)
PathOf(str) ==
    IF str = << >> THEN [abs |-> FALSE, comps |-> << >>]
    ELSE LET isAbs == Head(str) = Slash
             ps == DropEmpty(SplitSlash(str, << >>))
         IN  [abs |-> isAbs,
              comps |-> IF ps = << << >> >> THEN << >> ELSE ps]

RECURSIVE JoinComps(_)
JoinComps(cs) ==
    IF cs = << >> THEN << >>
    ELSE IF Len(cs) = 1 THEN Head(cs)
    ELSE Head(cs) \o <<Slash>> \o JoinComps(Tail(cs))

\* path.string()
PathString(p) == (IF p.abs THEN <<Slash>> ELSE << >>) \o JoinComps(p.comps)

\* path.parent_path()
ParentPath(p) ==
    IF p.comps = << >> THEN p
    ELSE [p EXCEPT !.comps = SubSeq(p.comps, 1, Len(p.comps) - 1)]

\* path.filename()
Filename(p) == IF p.comps = << >> THEN << >> ELSE p.comps[Len(p.comps)]

\* a / b: an absolute b replaces a; an empty b adds a trailing separator
PathAppend(a, b) ==
    IF b.abs THEN b
    ELSE IF b.comps = << >> THEN [a EXCEPT !.comps = Append(a.comps, << >>)]
    ELSE [a EXCEPT !.comps = a.comps \o b.comps]

\* path.extension(): from the last dot of the filename, unless the dot
\* starts the filename or the filename is "." or ".."
RECURSIVE LastDot(_, _)
LastDot(name, i) ==
    IF i = 0 THEN 0 ELSE IF name[i] = Dot THEN i ELSE LastDot(name, i - 1)

Extension(name) ==
    LET d == LastDot(name, Len(name))
    IN  IF name = nDot \/ name = nDotDot \/ d <= 1 THEN << >>
        ELSE SubSeq(name, d, Len(name))


(***************************************************************************)
(* The state.                                                              *)
(***************************************************************************)
VARIABLES
    dirs,       \* directory path -> [entries, listable]: the directory tree
    disk,       \* HTML file path -> its text on disk
    perm,       \* HTML file path -> "ok", "noread", "nowrite" or "full"
    orig,       \* the text of every HTML file before the first run
    snap,       \* the texts on disk at the end of each finished run
    wrote,      \* per finished run, the files writeFile has opened
    run,        \* the number of the run under way
    pc,         \* the position of the program
    htmlFiles,  \* the vector findHtmlFiles returned
    idx,        \* the position of processDirectory's loop in htmlFiles
    content,    \* processFile: the text read
    result,     \* correctFileReferences: the text being corrected
    attrs,      \* the src/href values of the parse tree not yet visited
    oldStr,     \* replaceInContent: the literal searched
    newStr,     \* replaceInContent: the literal inserted
    pos,        \* replaceInContent: the scan position
    opened,     \* the files writeFile has opened in the run under way
    log,        \* the diagnostics written to std::cerr
    corrections,\* the rewriter's own specification: the pairs given
    cidx        \* the rewriter's own specification: the pair under way

vars == <<dirs, disk, perm, orig, snap, wrote, run, pc, htmlFiles, idx, content,
          result, attrs, oldStr, newStr, pos, opened, log, corrections, cidx>>

\* the directory given on the command line, /w
startDir == <<nW>>

(***************************************************************************)
(* The file system, as std::filesystem sees it.                            *)
(***************************************************************************)
IsDir(d) == d \in DOMAIN dirs

\* the entry of directory d named exactly name, or none
HasEntry(d, name) == \E i \in 1..Len(dirs[d].entries) : dirs[d].entries[i].name = name

EntryIsDir(d, name) ==
    \E i \in 1..Len(dirs[d].entries) :
        dirs[d].entries[i].name = name /\ dirs[d].entries[i].isDir

RECURSIVE ResolveFrom(_, _)
\* path resolution of the components cs from directory or file cur: "." and
\* an empty component stay, ".." goes up, a name must be an entry with
\* exactly that spelling, and all of them need cur to be a directory.
\* No modelled reference crosses a directory that cannot be listed.
ResolveFrom(cur, cs) ==
    IF cs = << >> THEN cur
    ELSE IF ~IsDir(cur) THEN NoPath
    ELSE LET c == Head(cs)
         IN  IF c = << >> \/ c = nDot THEN ResolveFrom(cur, Tail(cs))
             ELSE IF c = nDotDot
                  THEN ResolveFrom(IF cur = << >> THEN cur
                                   ELSE SubSeq(cur, 1, Len(cur) - 1), Tail(cs))
             ELSE IF HasEntry(cur, c) THEN ResolveFrom(Append(cur, c), Tail(cs))
             ELSE NoPath

\* the canonical path an absolute path names, or NoPath: fs::exists and
\* fs::weakly_canonical of an existing path
Resolve(p) == ResolveFrom(<< >>, p.comps)

\* the comparison with the three-iterator std::equal, which stops at the
\* end of the shorter range
comparePrefixIgnoreCase(a, b) ==
    \A i \in 1..Min(Len(a), Len(b)) : ToLower(a[i]) = ToLower(b[i])

\* bool comparePathsIgnoreCase(a, b): std::equal over both whole ranges
\* with a byte-wise std::tolower
comparePathsIgnoreCase(a, b) ==
    /\ Len(a) = Len(b)
    /\ \A i \in 1..Len(a) : ToLower(a[i]) = ToLower(b[i])

RECURSIVE FirstMatch(_, _, _)
\* the first entry, in listing order, that the comparison accepts, or 0
FirstMatch(entries, name, i) ==
    IF i > Len(entries) THEN 0
    ELSE IF comparePathsIgnoreCase(entries[i].name, name) THEN i
    ELSE FirstMatch(entries, name, i + 1)

\* std::optional<fs::path> getActualPath(path): found is has_value()
NullOpt == [found |-> FALSE, path |-> [abs |-> FALSE, comps |-> << >>]]

getActualPath(path) ==
    LET parent == ParentPath(path)
        d == Resolve(parent)
    IN  IF d = NoPath THEN NullOpt
        \* directory_iterator throws on a file or an unreadable directory
        ELSE IF ~IsDir(d) THEN NullOpt
        ELSE IF ~dirs[d].listable THEN NullOpt
        ELSE LET i == FirstMatch(dirs[d].entries, Filename(path), 1)
             IN  IF i = 0 THEN NullOpt
                 ELSE [found |-> TRUE,
                       path |-> [parent EXCEPT
                                   !.comps = Append(parent.comps, dirs[d].entries[i].name)]]

RECURSIVE CommonPrefix(_, _)
CommonPrefix(a, b) ==
    IF a = << >> \/ b = << >> THEN 0
    ELSE IF Head(a) = Head(b) THEN 1 + CommonPrefix(Tail(a), Tail(b))
    ELSE 0

\* fs::relative(p, base): weakly_canonical of both, then lexically_relative
Relative(p, base) ==
    LET cp == Resolve(p)
        cb == Resolve(base)
        k == CommonPrefix(cp, cb)
        ups == [i \in 1..(Len(cb) - k) |-> nDotDot]
        rest == SubSeq(cp, k + 1, Len(cp))
    IN  [abs |-> FALSE,
         comps |-> IF ups \o rest = << >> THEN <<nDot>> ELSE ups \o rest]

IsHtml(name) == LowerStr(Extension(name)) \in validExtensions

RECURSIVE WalkEntries(_, _)
\* recursive_directory_iterator from entry i of directory d on: the HTML
\* files met, in iteration order, and whether the iteration got to its end.
\* Stepping into a directory that cannot be listed throws, which ends the
\* whole iteration.
WalkEntries(d, i) ==
    IF i > Len(dirs[d].entries) THEN [files |-> << >>, ok |-> TRUE]
    ELSE LET e == dirs[d].entries[i]
             here == IF e.isDir
                     THEN IF dirs[Append(d, e.name)].listable
                          THEN WalkEntries(Append(d, e.name), 1)
                          ELSE [files |-> << >>, ok |-> FALSE]
                     ELSE [files |-> IF IsHtml(e.name) THEN <<Append(d, e.name)>> ELSE << >>,
                           ok |-> TRUE]
         IN  IF ~here.ok THEN here
             ELSE LET rest == WalkEntries(d, i + 1)
                  IN  [files |-> here.files \o rest.files, ok |-> rest.ok]

\* std::vector<fs::path> findHtmlFiles(directory), with whether it ended
\* in the catch block
findHtmlFiles(directory) ==
    IF ~dirs[directory].listable THEN [files |-> << >>, ok |-> FALSE]
    ELSE WalkEntries(directory, 1)

(***************************************************************************)
(* The parse tree (gumbo): the src and href values in document order.      *)
(***************************************************************************)
RECURSIVE UpTo(_, _)
\* the text before the first c
UpTo(s, c) ==
    IF s = << >> \/ Head(s) = c THEN << >> ELSE <<Head(s)>> \o UpTo(Tail(s), c)

RECURSIVE ParseAttrs(_)
ParseAttrs(text) ==
    IF text = << >> THEN << >>
    ELSE IF Head(text) \in {SrcOpen, HrefOpen}
         THEN LET v == UpTo(Tail(text), AttrClose)
              IN  <<v>> \o ParseAttrs(SubSeq(text, Len(v) + 3, Len(text)))
    ELSE ParseAttrs(Tail(text))


(***************************************************************************)
(* The initial states: a directory tree under /w and its HTML documents.   *)
(***************************************************************************)
File(name) == [name |-> name, isDir |-> FALSE]
Dir(name) == [name |-> name, isDir |-> TRUE]
Listing(es, l) == [entries |-> es, listable |-> l]

\* the attribute values of the generated documents:
\* t, T, s/t, ./T, s/../T, "", s/, ., .., /t, h://x, U+0438
RefLiterals ==
    { nt, nT, <<115, 47, 116>>, <<46, 47, 84>>, <<115, 47, 46, 46, 47, 84>>,
      << >>, <<115, 47>>, nDot, nDotDot, <<47, 116>>,
      <<104, 58, 47, 47, 120>>, nCyrLo }

\* the text nodes after the elements: none, or the word "t"
Texts == { << >>, nt }

RECURSIVE RenderElems(_, _)
\* <img src="..."> and <a href="..."> in turn, element i first
RenderElems(lits, i) ==
    IF i > Len(lits) THEN << >>
    ELSE <<IF i % 2 = 1 THEN SrcOpen ELSE HrefOpen>> \o lits[i] \o <<AttrClose>>
         \o RenderElems(lits, i + 1)

Render(lits, text) == RenderElems(lits, 1) \o text

LitSeqs == UNION { [1..n -> RefLiterals] : n \in 1..MaxElems }

Documents == { Render(lits, text) : lits \in LitSeqs, text \in Texts }

indexFile == <<nW, nIndex>>
pageFile == <<nW, nA, nPage>>
qFile == <<nW, nB, nQ>>

\* /T and /w; /w holds the assets, a subdirectory with one asset, the
\* directory "h:" with the file X, and i.htm
TreeOfDocument(assets, subName, subAsset) ==
    (<< >> :> Listing(<<Dir(nW), File(nT)>>, TRUE))
    @@ (<<nW>> :> Listing(assets \o <<Dir(subName), Dir(nScheme), File(nIndex)>>, TRUE))
    @@ (<<nW, subName>> :> Listing(<<File(subAsset)>>, TRUE))
    @@ (<<nW, nScheme>> :> Listing(<<File(nX)>>, TRUE))

\* T alone; t listed before T, two entries that differ by case only; and
\* the Cyrillic name alone
AssetListings == { <<File(nT)>>, <<File(nt), File(nT)>>, <<File(nCyrUp)>> }

\* S/T, s/t and s/T
SubDirs == { <<nS, nT>>, <<ns, nt>>, <<ns, nT>> }

DocumentTrees ==
    { TreeOfDocument(as, sub[1], sub[2]) : as \in AssetListings, sub \in SubDirs }

\* /w holds T, i.htm and the subdirectories a (T, p.html) and b (T, q.HTM)
\* in the order given; a and b may be unreadable
Orders ==
    { <<Dir(nA), Dir(nB), File(nIndex)>>, <<Dir(nB), File(nIndex), Dir(nA)>>,
      <<File(nIndex), Dir(nA), Dir(nB)>> }

TreeOfDirectories(order, la, lb) ==
    (<< >> :> Listing(<<Dir(nW)>>, TRUE))
    @@ (<<nW>> :> Listing(<<File(nT)>> \o order, TRUE))
    @@ (<<nW, nA>> :> Listing(<<File(nT), File(nPage)>>, la))
    @@ (<<nW, nB>> :> Listing(<<File(nQ), File(nT)>>, lb))

Modes == {"ok", "noread", "nowrite", "full"}

InitProgram ==
    /\ orig = disk
    /\ snap = << >>
    /\ wrote = << >>
    /\ run = 1
    /\ pc = "find"
    /\ htmlFiles = << >>
    /\ idx = 1
    /\ content = << >>
    /\ result = << >>
    /\ attrs = << >>
    /\ oldStr = << >>
    /\ newStr = << >>
    /\ pos = 0
    /\ opened = {}
    /\ log = << >>
    /\ corrections = << >>
    /\ cidx = 0

\* one document, i.htm, in a tree of assets; every file can be read and written
InitDocument ==
    /\ dirs \in DocumentTrees
    /\ disk \in [{indexFile} -> Documents]
    /\ perm = [f \in {indexFile} |-> "ok"]
    /\ InitProgram

\* three documents that reference t beside an asset T, in three directories
InitDirectories ==
    /\ \E order \in Orders, la \in BOOLEAN, lb \in BOOLEAN :
          dirs = TreeOfDirectories(order, la, lb)
    /\ disk = [f \in {indexFile, pageFile, qFile} |-> Render(<<nt>>, << >>)]
    /\ perm \in [{indexFile, pageFile, qFile} -> Modes]
    /\ InitProgram

Init == InitDocument \/ InitDirectories


(***************************************************************************)
(* The program.                                                            *)
(***************************************************************************)
AsPath(f) == [abs |-> TRUE, comps |-> f]

\* the file processDirectory's loop is at
htmlFile == htmlFiles[idx]

Report(f, what) == [file |-> f, what |-> what]

\* processDirectory: the call of findHtmlFiles(startDir)
FindHtmlFiles ==
    /\ pc = "find"
    /\ LET r == findHtmlFiles(startDir)
       IN  /\ htmlFiles' = r.files
           /\ log' = IF r.ok THEN log ELSE Append(log, Report(startDir, "Error accessing directory"))
    /\ idx' = 1
    /\ pc' = "file"
    /\ UNCHANGED <<dirs, disk, perm, orig, snap, wrote, run, content, result, attrs,
                   oldStr, newStr, pos, opened, corrections, cidx>>

\* processFile: readFile, then correctFileReferences up to the parse.  A
\* file that cannot be opened throws, which processDirectory catches.
ReadFile ==
    /\ pc = "file"
    /\ idx <= Len(htmlFiles)
    /\ \/ /\ perm[htmlFile] = "noread"
          /\ log' = Append(log, Report(htmlFile, "Cannot open file"))
          /\ idx' = idx + 1
          /\ UNCHANGED <<pc, content, result, attrs>>
       \/ /\ perm[htmlFile] # "noread"
          /\ content' = disk[htmlFile]
          /\ result' = disk[htmlFile]
          /\ attrs' = ParseAttrs(disk[htmlFile])
          /\ pc' = "node"
          /\ UNCHANGED <<log, idx>>
    /\ UNCHANGED <<dirs, disk, perm, orig, snap, wrote, run, htmlFiles,
                   oldStr, newStr, pos, opened, corrections, cidx>>

\* processNode / updateAttribute on the next src or href value
UpdateAttribute ==
    /\ pc = "node"
    /\ attrs # << >>
    /\ LET parent == ParentPath(AsPath(htmlFile))
           refPath == PathOf(Head(attrs))
           fullPath == PathAppend(parent, refPath)
           actualPath == getActualPath(fullPath)
       IN  \/ /\ actualPath.found
              /\ oldStr' = Head(attrs)
              /\ newStr' = PathString(Relative(actualPath.path, parent))
              /\ pos' = 0
              /\ pc' = "replace"
              /\ UNCHANGED attrs
           \/ /\ ~actualPath.found
              /\ attrs' = Tail(attrs)
              /\ UNCHANGED <<oldStr, newStr, pos, pc>>
    /\ UNCHANGED <<dirs, disk, perm, orig, snap, wrote, run, htmlFiles, idx, content,
                   result, opened, log, corrections, cidx>>

\* the loop body with pos += oldStr.length()
ReplaceLoopSkipsOld ==
    LET found == Find(result, oldStr, pos)
    IN  /\ found # -1
        /\ result' = Replace(result, found, Len(oldStr), newStr)
        /\ pos' = found + Len(oldStr)

\* replaceInContent: one evaluation of the loop condition that finds an
\* occurrence, and the loop body
ReplaceLoop ==
    LET found == Find(result, oldStr, pos)
    IN  /\ found # -1
        /\ result' = Replace(result, found, Len(oldStr), newStr)
        /\ pos' = found + Len(newStr)

\* replaceInContent: the loop condition finds nothing
ReplaceExit == Find(result, oldStr, pos) = -1

ReplaceInContent ==
    /\ pc = "replace"
    /\ \/ /\ ReplaceLoop
          /\ UNCHANGED <<pc, attrs>>
       \/ /\ ReplaceExit
          /\ pc' = "node"
          /\ attrs' = Tail(attrs)
          /\ UNCHANGED <<result, pos>>
    /\ UNCHANGED <<dirs, disk, perm, orig, snap, wrote, run, htmlFiles, idx, content,
                   oldStr, newStr, opened, log, corrections, cidx>>

\* processFile after correctFileReferences: writeFile when the text differs.
\* An ofstream that cannot be opened throws; an opened one has truncated the
\* file, and a failing << leaves what got written and throws nothing.
WriteFile ==
    /\ pc = "node"
    /\ attrs = << >>
    /\ \/ /\ content = result
          /\ UNCHANGED <<disk, opened, log>>
       \/ /\ content # result
          /\ perm[htmlFile] = "nowrite"
          /\ log' = Append(log, Report(htmlFile, "Cannot write file"))
          /\ UNCHANGED <<disk, opened>>
       \/ /\ content # result
          /\ perm[htmlFile] = "full"
          /\ \E k \in 0..(Len(result) - 1) :
                disk' = [disk EXCEPT ![htmlFile] = SubSeq(result, 1, k)]
          /\ opened' = opened \cup {htmlFile}
          /\ UNCHANGED log
       \/ /\ content # result
          /\ perm[htmlFile] \notin {"nowrite", "full"}
          /\ disk' = [disk EXCEPT ![htmlFile] = result]
          /\ opened' = opened \cup {htmlFile}
          /\ UNCHANGED log
    /\ idx' = idx + 1
    /\ pc' = "file"
    /\ UNCHANGED <<dirs, perm, orig, snap, wrote, run, htmlFiles, content, result,
                   attrs, oldStr, newStr, pos, corrections, cidx>>

\* processDirectory returns; the corrector is run again on the same tree
EndRun ==
    /\ pc = "file"
    /\ idx > Len(htmlFiles)
    /\ snap' = Append(snap, disk)
    /\ wrote' = Append(wrote, opened)
    /\ opened' = {}
    /\ \/ /\ run < Runs
          /\ run' = run + 1
          /\ pc' = "find"
       \/ /\ run >= Runs
          /\ pc' = "done"
          /\ UNCHANGED run
    /\ UNCHANGED <<dirs, disk, perm, orig, htmlFiles, idx, content, result, attrs,
                   oldStr, newStr, pos, log, corrections, cidx>>

Next ==
    \/ FindHtmlFiles
    \/ ReadFile
    \/ UpdateAttribute
    \/ ReplaceInContent
    \/ WriteFile
    \/ EndRun

Spec == Init /\ [][Next]_vars


(***************************************************************************)
(* The rewriter on its own: replaceInContent applied to any text, once per *)
(* correction pair, in the order given (correctFileReferences walks the    *)
(* tree and updateAttribute calls replaceInContent for each pair).         *)
(***************************************************************************)
\* the texts over "t" and "T" of at most MaxText bytes
RewriteTexts == UNION { [1..n -> {116, 84}] : n \in 0..MaxText }

\* the pairs (oldLiteral, newLiteral): a case correction, one whose
\* replacement meets its neighbour, the identity, one whose replacement
\* holds the literal, a shortening one and a deletion
RewritePairs ==
    { <<nt, nT>>, <<<<116, 84>>, <<84, 84>>>>, <<nT, nT>>, <<nt, <<116, 116>>>>,
      <<<<84, 84>>, nt>>, <<nT, << >>>> }

CorrectionSeqs == UNION { [1..n -> RewritePairs] : n \in 0..MaxPairs }

InitRewrite ==
    /\ dirs = (<< >> :> Listing(<< >>, TRUE))
    /\ disk = << >>
    /\ perm = << >>
    /\ orig = << >>
    /\ snap = << >>
    /\ wrote = << >>
    /\ run = 1
    /\ htmlFiles = << >>
    /\ idx = 1
    /\ attrs = << >>
    /\ opened = {}
    /\ log = << >>
    /\ content \in RewriteTexts
    /\ result = content
    /\ corrections \in CorrectionSeqs
    /\ cidx = 0
    /\ oldStr = << >>
    /\ newStr = << >>
    /\ pos = 0
    /\ pc = "pair"

\* the call of replaceInContent for the next pair
NextCorrection ==
    /\ pc = "pair"
    /\ cidx < Len(corrections)
    /\ cidx' = cidx + 1
    /\ oldStr' = corrections[cidx + 1][1]
    /\ newStr' = corrections[cidx + 1][2]
    /\ pos' = 0
    /\ pc' = "scan"
    /\ UNCHANGED <<dirs, disk, perm, orig, snap, wrote, run, htmlFiles, idx, content,
                   result, attrs, opened, log, corrections>>

\* replaceInContent for the pair under way
ScanCorrection ==
    /\ pc = "scan"
    /\ \/ /\ ReplaceLoop
          /\ UNCHANGED pc
       \/ /\ ReplaceExit
          /\ pc' = "pair"
          /\ UNCHANGED <<result, pos>>
    /\ UNCHANGED <<dirs, disk, perm, orig, snap, wrote, run, htmlFiles, idx, content,
                   attrs, oldStr, newStr, opened, log, corrections, cidx>>

NextRewrite == NextCorrection \/ ScanCorrection

SpecRewrite == InitRewrite /\ [][NextRewrite]_vars


(***************************************************************************)
(* What the claims speak of.                                               *)
(***************************************************************************)
Contains(text, lit) == Find(text, lit, 0) # -1

\* the scenario of one document, i.htm in /w
OneDocument == DOMAIN orig = {indexFile}

\* the scenario of three documents in three directories
ThreeDocuments == DOMAIN orig = {indexFile, pageFile, qFile}

\* the src/href values of i.htm before the first run
origAttrs == ParseAttrs(orig[indexFile])

\* the first run is over
Ran == Len(snap) >= 1

\* the text of file f after the first run
After(f) == snap[1][f]

\* the reference as the program forms it: the document's directory / value
FullPath(a) == PathAppend(AsPath(startDir), PathOf(a))

\* a value the specification calls non-local: it holds "://" or starts with "/"
NonLocal(a) == Contains(a, <<58, 47, 47>>) \/ (a # << >> /\ Head(a) = 47)

\* a value that names an existing entry, spelled as on disk
ExactOnDisk(a) == Resolve(FullPath(a)) # NoPath

\* the text of a document with one reference to "t", corrected
Corrected == Render(<<nT>>, << >>)

\* every file can be read and written, every directory listed
NoFailure ==
    /\ \A f \in DOMAIN perm : perm[f] = "ok"
    /\ \A d \in DOMAIN dirs : dirs[d].listable

(***************************************************************************)
(* C1.  Idempotence: a second run of processDirectory on the tree the      *)
(* first run left changes no document and writes no file.                  *)
(***************************************************************************)
\* C1 as claimed: after the second run every text is the one the first run
\* left, and the second run has opened no file for writing
C1_SecondRunChangesNothing ==
    (/\ NoFailure
     /\ OneDocument => \A i \in 1..Len(origAttrs) : ~NonLocal(origAttrs[i])
     /\ Len(snap) >= 2)
    => (snap[2] = snap[1] /\ wrote[2] = {})

(***************************************************************************)
(* C2.  No-op preservation: a document whose references all name existing  *)
(* entries, spelled as on disk, is left as it is and is not written.       *)
(***************************************************************************)
\* C2 as claimed: such a document has its text after processFile, and
\* writeFile has not opened it
C2_ExactDocumentUntouched ==
    (/\ OneDocument
     /\ Ran
     /\ \A i \in 1..Len(origAttrs) : ~NonLocal(origAttrs[i]) /\ ExactOnDisk(origAttrs[i]))
    => (After(indexFile) = orig[indexFile] /\ indexFile \notin wrote[1])

(***************************************************************************)
(* C3.  Multi-component case resolution: with S/T on disk, getActualPath   *)
(* of /w/s/t finds a path whose filename is T, and a document that         *)
(* references s/t holds S/T after processFile.                             *)
(***************************************************************************)
\* C3 as claimed: s/t is found with the filename T, and the document
\* holds S/T
C3_DirectoryCaseCorrected ==
    (/\ OneDocument
     /\ EntryIsDir(startDir, nS)
     /\ HasEntry(<<nW, nS>>, nT)
     /\ \E i \in 1..Len(origAttrs) : origAttrs[i] = <<115, 47, 116>>
     /\ Ran)
    => /\ getActualPath(FullPath(<<115, 47, 116>>)).found
       /\ Filename(getActualPath(FullPath(<<115, 47, 116>>)).path) = nT
       /\ Contains(After(indexFile), <<83, 47, 84>>)

(***************************************************************************)
(* C4.  Non-local references are untouched: a value that holds "://" or    *)
(* starts with "/" is never resolved against the file system, and it reads *)
(* the same after processFile.                                             *)
(***************************************************************************)
\* C4 as claimed: replaceInContent never gets a non-local value, and the
\* non-local values of the document read the same after processFile
C4_NonLocalUntouched ==
    OneDocument =>
        /\ pc = "replace" => ~NonLocal(oldStr)
        /\ Ran => \A i \in 1..Len(origAttrs) :
                     NonLocal(origAttrs[i]) =>
                         ParseAttrs(After(indexFile))[i] = origAttrs[i]

(***************************************************************************)
(* C5.  Directory tolerance: with exactly one of the subdirectories        *)
(* unreadable, findHtmlFiles returns every HTML file outside it, and       *)
(* processDirectory corrects those it can read and write.                  *)
(***************************************************************************)
Range(seq) == { seq[i] : i \in 1..Len(seq) }

\* the HTML files that are not under an unreadable directory
Accessible ==
    { f \in DOMAIN orig : \A n \in 1..(Len(f) - 1) : dirs[SubSeq(f, 1, n)].listable }

\* C5 as claimed: the files outside the unreadable directory are all in
\* the vector, and corrected at the end of the run
C5_SiblingsStillFound ==
    (/\ ThreeDocuments
     /\ dirs[<<nW, nA>>].listable # dirs[<<nW, nB>>].listable
     /\ pc # "find")
    => /\ Accessible \subseteq Range(htmlFiles)
       /\ Ran => \A f \in Accessible : perm[f] = "ok" => After(f) = Corrected

(***************************************************************************)
(* C6.  Per-file failure isolation: a file that cannot be read, cannot be  *)
(* opened for writing or cannot be written in full is reported and keeps   *)
(* its text, and every other file is corrected.                            *)
(***************************************************************************)
Reported(f) == \E i \in 1..Len(log) : log[i].file = f

\* C6 as claimed: with one failing file, that file is reported and keeps
\* its text, and the other files are corrected
C6_FailureIsolated ==
    (/\ ThreeDocuments
     /\ \A d \in DOMAIN dirs : dirs[d].listable
     /\ Cardinality({ f \in DOMAIN perm : perm[f] # "ok" }) = 1
     /\ Ran)
    => \A f \in DOMAIN orig :
          /\ perm[f] = "ok" => After(f) = Corrected
          /\ perm[f] # "ok" => (Reported(f) /\ After(f) = orig[f])

(***************************************************************************)
(* C8.  Unicode filenames: a reference that differs from the name on disk  *)
(* only by the case of a Cyrillic letter is found and corrected, as an     *)
(* ASCII one is.                                                           *)
(***************************************************************************)
\* C8 as claimed: the lower-case Cyrillic reference is found, and the
\* document holds the name as on disk
C8_UnicodeCaseCorrected ==
    (/\ OneDocument
     /\ HasEntry(startDir, nCyrUp)
     /\ \E i \in 1..Len(origAttrs) : origAttrs[i] = nCyrLo
     /\ Ran)
    => /\ getActualPath(FullPath(nCyrLo)).found
       /\ Contains(After(indexFile), nCyrUp)


(***************************************************************************)
(* C7.  Single-reference correction: with T on disk and a document whose   *)
(* reference is t, the reference reads T after processFile.                *)
(***************************************************************************)
RECURSIVE CorrectAttrs(_)
\* the text with every attribute value "t" turned into "T", and nothing else
CorrectAttrs(text) ==
    IF text = << >> THEN << >>
    ELSE IF Head(text) \in {SrcOpen, HrefOpen}
         THEN LET v == UpTo(Tail(text), AttrClose)
              IN  <<Head(text)>> \o (IF v = nt THEN nT ELSE v) \o <<AttrClose>>
                  \o CorrectAttrs(SubSeq(text, Len(v) + 3, Len(text)))
    ELSE <<Head(text)>> \o CorrectAttrs(Tail(text))

\* /w holds T and no t; the document references t, and no other of its
\* references resolves; the first run is over
C7_Case ==
    /\ OneDocument
    /\ HasEntry(startDir, nT)
    /\ ~HasEntry(startDir, nt)
    /\ \E i \in 1..Len(origAttrs) : origAttrs[i] = nt
    /\ \A i \in 1..Len(origAttrs) :
          origAttrs[i] # nt => ~getActualPath(FullPath(origAttrs[i])).found
    /\ Ran

\* C7 as claimed: the document is the input with the reference literal
\* substituted, and identical to the input everywhere else
C7_OnlyTheReferenceChanges ==
    C7_Case => After(indexFile) = CorrectAttrs(orig[indexFile])

\* C7 as amended: the reference reads T, every occurrence of the literal t
\* in the whole text reads T, and every byte that differs from the input
\* lies in such an occurrence
C7_OnlyTheLiteralChanges ==
    C7_Case =>
        LET in == orig[indexFile]
            out == After(indexFile)
            n == Len(nt)
        IN  /\ Len(out) = Len(in)
            /\ \A i \in 1..Len(origAttrs) :
                  origAttrs[i] = nt => ParseAttrs(out)[i] = nT
            /\ \A j \in 1..Len(in) :
                  Sub(in, j, n) = nt => Sub(out, j, n) = nT
            /\ \A q \in 1..Len(in) :
                  out[q] # in[q] =>
                      \E j \in 1..q : /\ q < j + n
                                      /\ Sub(in, j, n) = nt
                                      /\ Sub(out, j, n) = nT

\* a document whose text node, or other attribute, holds the literal too
C7_Witness ==
    C7_Case /\ After(indexFile) # CorrectAttrs(orig[indexFile])

(***************************************************************************)
(* C9.  Rewriter semantics: replaceInContent, applied once per correction  *)
(* pair in the order given, replaces the leftmost non-overlapping          *)
(* occurrences of the old literal in one pass that resumes after each      *)
(* inserted literal; with no pairs the text is the input.                  *)
(***************************************************************************)
RECURSIVE OnePass(_, _, _)
\* the leftmost non-overlapping occurrences of old replaced, left to right
OnePass(text, old, new) ==
    IF Len(text) < Len(old) THEN text
    ELSE IF SubSeq(text, 1, Len(old)) = old
         THEN new \o OnePass(SubSeq(text, Len(old) + 1, Len(text)), old, new)
    ELSE <<Head(text)>> \o OnePass(Tail(text), old, new)

RECURSIVE Rewritten(_, _, _)
\* the first n pairs applied, one pass each, in the order given
Rewritten(text, pairs, n) ==
    IF n = 0 THEN text
    ELSE OnePass(Rewritten(text, pairs, n - 1), pairs[n][1], pairs[n][2])

\* C9 as amended: between two pairs, and at the end, the text is the one
\* pass per pair, and the old literal does not occur at or after the scan
\* position
C9_OnePassPerPair ==
    pc = "pair" =>
        /\ result = Rewritten(content, corrections, cidx)
        /\ cidx > 0 => Find(result, oldStr, pos) = -1

\* C9 as claimed: the rewriter moves to the next pair only when no
\* occurrence of the old literal remains in the text (stated for the pairs
\* whose new literal does not itself hold the old one)
C9_NoOccurrenceRemains ==
    (pc = "pair" /\ cidx > 0 /\ ~Contains(newStr, oldStr))
    => /\ result = Rewritten(content, corrections, cidx)
       /\ ~Contains(result, oldStr)

\* both pairs applied, the text changed, and the old literal of the last
\* pair still in it, before the scan position
C9_Witness ==
    /\ pc = "pair"
    /\ cidx = 2
    /\ result # content
    /\ ~Contains(newStr, oldStr)
    /\ Contains(result, oldStr)

(***************************************************************************)
(* C10.  Termination: replaceInContent is never called with an empty old   *)
(* literal, since a value with an empty, "." or ".." final component is    *)
(* never found; each iteration of its loop moves the scan position on,     *)
(* past the inserted text; and processFile, once it has read the file,     *)
(* gets to its end: every step it takes lowers a rank in a well-founded    *)
(* order.                                                                  *)
(***************************************************************************)
\* a value that is empty or whose final path component is empty, "." or ".."
EmptyFinal(a) == Filename(PathOf(a)) \in {<< >>, nDot, nDotDot}

\* what is left to do in processFile: the attributes to visit, then the
\* text to scan
Rank == <<Len(attrs), IF pc = "replace" THEN Len(result) - pos + 1 ELSE Len(result) + 2>>

LexLess(a, b) == a[1] < b[1] \/ (a[1] = b[1] /\ a[2] < b[2])

InFile == pc \in {"node", "replace"}

\* C10: replaceInContent gets no empty literal and no value with an empty
\* final component; its loop moves pos on, past the inserted text; and
\* every step inside processFile lowers the rank
C10_Terminates ==
    [][/\ pc' = "replace" => (oldStr' # << >> /\ ~EmptyFinal(oldStr'))
       /\ (pc = "replace" /\ pc' = "replace") =>
              (/\ pos' > pos
               /\ pos' <= Len(result')
               /\ pos' >= Len(newStr)
               /\ SubSeq(result', pos' - Len(newStr) + 1, pos') = newStr)
       /\ (InFile /\ InFile') =>
              (LexLess(Rank', Rank) /\ Rank'[1] >= 0 /\ Rank'[2] >= 0)]_vars

\* a document with a value whose final component is empty, processed to
\* its end with another of its references replaced
C10_Witness ==
    /\ OneDocument
    /\ \E i \in 1..Len(origAttrs) : EmptyFinal(origAttrs[i])
    /\ pc = "file"
    /\ idx = 2
    /\ result # content

=============================================================================
